---- MODULE Spec2Model ----
(***************************************************************************)
(* A model of the policy vector store (src/vector_store.py) and of the     *)
(* start-up sequence that uses it (src/app.py, src/agent.py).              *)
(*                                                                         *)
(* Abstractions                                                            *)
(*  - A text is a sequence of tokens (words); " " is the separator token   *)
(*    that the chunker inserts between joined lines.  A line is a text     *)
(*    that was already stripped; the blank line is the empty sequence.     *)
(*  - An embedding has two components instead of 384, in fixed point with  *)
(*    unit 1/10: <<6, 8>> is (0.6, 0.8).  np.random.rand is a choice from  *)
(*    RawVecs.                                                             *)
(*  - A file is [state, data]: state is "absent", "ok" (completely         *)
(*    written) or "corrupt" (truncated by a write that failed midway).     *)
(*  - A storage write can fail where the operating system lets it fail:    *)
(*    when the file is opened, or while its content is written.            *)
(*  - List indices are 0-based as in the source; Seq positions are idx+1.  *)
(***************************************************************************)
EXTENDS Integers, Sequences, FiniteSets, TLC

VARIABLES
    HAS_FAISS,        \* module constant HAS_FAISS: which backend this install uses
    source_files,     \* the text sources on disk, by path
    alive,            \* a PolicyVectorStore instance exists (its constructor returned)
    index,            \* self.index: the vectors of the FAISS index (FAISS backend)
    embeddings,       \* self.embeddings: the rows of the matrix (NumPy backend)
    metadata,         \* self.metadata
    metadata_file,    \* <persist_directory>/<collection>_metadata.pkl
    index_file,       \* <persist_directory>/<collection>.index
    embeddings_file,  \* <persist_directory>/<collection>_embeddings.npy
    ret,              \* the last call: its name, arguments and what it returned
    _vector_store,    \* agent.py global _vector_store: "None" or the name of a store
    _data_loader,     \* agent.py global _data_loader: "None" or the name of a loader
    tools,            \* the tools created so far, each with the instance it was given
    loaders           \* the FacultyDataLoader instances, by name: their two tables

vars == <<HAS_FAISS, source_files, alive, index, embeddings, metadata,
          metadata_file, index_file, embeddings_file, ret,
          _vector_store, _data_loader, tools, loaders>>

store == <<index, embeddings, metadata>>
persisted == <<metadata_file, index_file, embeddings_file>>
agent == <<_vector_store, _data_loader, tools, loaders>>

\* ------------------------------------------------------------------ bounds
MaxChunks == 2      \* loads that would grow the store beyond this are not explored
MaxK == 2           \* n_results ranges over -1 .. MaxK
MaxLines == 3       \* lines of a document given to _split_policies
MaxWords == 2       \* words of a text given to _categorize_policy, or of a query
MaxRows == 2        \* rows of timetable.csv
MaxTools == 2       \* tools created through the factories of agent.py

\* ------------------------------------------------------------------ helpers
Min(a, b) == IF a < b THEN a ELSE b
Max(a, b) == IF a > b THEN a ELSE b

\* Python s[:n] for any integer n
PyPrefix(s, n) ==
    IF n >= 0 THEN SubSeq(s, 1, Min(n, Len(s)))
    ELSE SubSeq(s, 1, Max(Len(s) + n, 0))

\* ------------------------------------------------------------------ texts
Blank == <<>>
Line1 == <<"1.", "max", "hours">>
Line2 == <<"2.", "no", "overlap">>
LineCont == <<"lunch", "break">>

DocTwo == <<Line1, Line2>>
DocOne == <<Line1, Blank, LineCont>>
DocEmpty == <<Blank>>
DocPreamble == <<LineCont, Line1>>
Docs == {DocTwo, DocOne, DocEmpty, DocPreamble}

\* re.match(r'^\d+\.', line)
IsMarkerToken(tok) == tok \in {"0.", "1.", "2.", "3."}
IsPolicyNumberLine(line) == Len(line) > 0 /\ IsMarkerToken(line[1])

\* int(line.split('.')[0])
MarkerNumber(line) ==
    CASE line[1] = "0." -> 0
      [] line[1] = "1." -> 1
      [] line[1] = "2." -> 2
      [] line[1] = "3." -> 3

RECURSIVE LStrip(_)
LStrip(text) ==
    IF Len(text) > 0 /\ text[1] = " " THEN LStrip(Tail(text)) ELSE text

RECURSIVE RStrip(_)
RStrip(text) ==
    IF Len(text) > 0 /\ text[Len(text)] = " "
    THEN RStrip(SubSeq(text, 1, Len(text) - 1)) ELSE text

\* str.strip()
Strip(text) == LStrip(RStrip(text))

\* str.lower(), token by token
Lower(tok) == CASE tok = "Hours" -> "hours"
                [] tok = "Staff" -> "staff"
                [] tok = "What" -> "what"
                [] tok = "Monday" -> "monday"
                [] tok = "Tuesday" -> "tuesday"
                [] tok = "Sharma" -> "sharma"
                [] tok = "Verma" -> "verma"
                [] tok = "Prof.Sharma" -> "prof.sharma"
                [] tok = "Prof.Mehta" -> "prof.mehta"
                [] tok = "Prof.Verma" -> "prof.verma"
                [] tok = "R101" -> "r101"
                [] tok = "R102" -> "r102"
                [] OTHER -> tok

\* word in tok: the tokens of the model of which a keyword is a proper part
PartOf == {<<"time", "timetable">>, <<"research", "researchers">>,
           <<"sharma", "prof.sharma">>, <<"verma", "prof.verma">>,
           <<"101", "r101">>, <<"102", "r102">>,
           <<"rule", "rules">>, <<"workload", "workload?">>}
In(word, tok) == tok = word \/ <<word, tok>> \in PartOf

\* any(word in text_lower for word in words)
ContainsAny(text, words) ==
    \E i \in 1..Len(text) : \E word \in words : In(word, Lower(text[i]))

WorkloadWords == {"workload", "hours", "teaching"}
ScheduleWords == {"schedule", "time", "slot", "break"}
DepartmentWords == {"department", "distribute", "staff"}
DevelopmentWords == {"research", "administrative", "mentoring"}

\* faulty variant: the scheduling keywords are tested before the workload keywords
CategorizeScheduleFirst(policy_text) ==
    IF ContainsAny(policy_text, ScheduleWords) THEN "scheduling"
    ELSE IF ContainsAny(policy_text, WorkloadWords) THEN "workload_management"
    ELSE IF ContainsAny(policy_text, DepartmentWords) THEN "department_management"
    ELSE IF ContainsAny(policy_text, DevelopmentWords) THEN "faculty_development"
    ELSE "general"

_categorize_policy(policy_text) ==
    IF ContainsAny(policy_text, WorkloadWords) THEN "workload_management"
    ELSE IF ContainsAny(policy_text, ScheduleWords) THEN "scheduling"
    ELSE IF ContainsAny(policy_text, DepartmentWords) THEN "department_management"
    ELSE IF ContainsAny(policy_text, DevelopmentWords) THEN "faculty_development"
    ELSE "general"

Chunk(current_chunk, policy_number) ==
    [text |-> Strip(current_chunk),
     policy_number |-> policy_number,
     category |-> _categorize_policy(current_chunk)]

\* the loop of _split_policies over the remaining lines
RECURSIVE SplitLoop(_, _, _, _)
\* faulty variant: the chunk in progress at the end of the input is dropped
SplitLoopNoFlush(lines, chunks, current_chunk, policy_number) ==
    IF lines = <<>>
    THEN chunks
    ELSE LET line == Strip(Head(lines)) IN
         IF line = <<>>
         THEN SplitLoop(Tail(lines), chunks, current_chunk, policy_number)
         ELSE IF IsPolicyNumberLine(line)
         THEN SplitLoop(Tail(lines),
                        IF current_chunk # <<>>
                        THEN Append(chunks, Chunk(current_chunk, policy_number))
                        ELSE chunks,
                        line, MarkerNumber(line))
         ELSE SplitLoop(Tail(lines), chunks, current_chunk \o <<" ">> \o line,
                        policy_number)

SplitLoop(lines, chunks, current_chunk, policy_number) ==
    IF lines = <<>>
    THEN IF current_chunk # <<>>
         THEN Append(chunks, Chunk(current_chunk, policy_number))
         ELSE chunks
    ELSE LET line == Strip(Head(lines)) IN
         IF line = <<>>
         THEN SplitLoop(Tail(lines), chunks, current_chunk, policy_number)
         ELSE IF IsPolicyNumberLine(line)
         THEN SplitLoop(Tail(lines),
                        IF current_chunk # <<>>
                        THEN Append(chunks, Chunk(current_chunk, policy_number))
                        ELSE chunks,
                        line, MarkerNumber(line))
         ELSE SplitLoop(Tail(lines), chunks, current_chunk \o <<" ">> \o line,
                        policy_number)

_split_policies(content) == SplitLoop(content, <<>>, <<>>, 0)

\* the metadata entry load_policies_from_file builds for a chunk
MetadataOf(chunk) ==
    [policy_number |-> chunk.policy_number,
     category |-> chunk.category,
     source |-> "policies.txt",
     text |-> chunk.text]

Metadatas(policy_chunks) ==
    [i \in 1..Len(policy_chunks) |-> MetadataOf(policy_chunks[i])]

\* ------------------------------------------------------------------ vectors
RawVecs == {<<3, 4>>, <<4, 3>>}

Dot(a, b) == a[1] * b[1] + a[2] * b[2]

ISqrt(n) == CHOOSE r \in 0..n : r * r <= n /\ n < (r + 1) * (r + 1)

\* _normalize_inplace, one row: a zero norm is replaced by 1.0 (10 tenths)
NormalizeRow(v) ==
    LET norm == ISqrt(Dot(v, v))
        d == IF norm = 0 THEN 10 ELSE norm
    IN  <<(v[1] * 10) \div d, (v[2] * 10) \div d>>

_normalize_inplace(mat) == [i \in 1..Len(mat) |-> NormalizeRow(mat[i])]

\* np.random.rand(n, dimension): every matrix of n raw rows
RandomMatrices(n) == [1..n -> RawVecs]

\* ------------------------------------------------------------------ files
Absent == [state |-> "absent", data |-> <<>>]
Corrupt == [state |-> "corrupt", data |-> <<>>]
Written(data) == [state |-> "ok", data |-> data]

\* os.path.exists
Exists(file) == file.state # "absent"

Paths == {"policies.txt", "missing.txt", "unreadable.txt"}

\* where a write of _save_index can fail
Faults == {"none", "meta_open", "meta_write", "vec_open", "vec_write"}

Store(idx, emb, md) == [index |-> idx, embeddings |-> emb, metadata |-> md]
Disk(mf, xf, ef) == [metadata_file |-> mf, index_file |-> xf, embeddings_file |-> ef]

EmptyStore == Store(<<>>, <<>>, <<>>)

\* index.ntotal, or the rows of the embeddings matrix
VectorCount(st, faiss) == IF faiss THEN Len(st.index) ELSE Len(st.embeddings)

\* ------------------------------------------------------------------ _save_index
\* Writes the metadata, then the vectors; an exception ends it and is swallowed.
\* open(path, 'wb') that fails leaves the old file; a write that fails midway
\* leaves a truncated file.
\* faulty variant: only the metadata are written
SaveMetadataOnly(st, disk, faiss, fault) ==
    IF fault = "meta_open" THEN disk
    ELSE IF fault = "meta_write"
    THEN Disk(Corrupt, disk.index_file, disk.embeddings_file)
    ELSE Disk(Written(st.metadata), disk.index_file, disk.embeddings_file)

_save_index(st, disk, faiss, fault) ==
    IF fault = "meta_open" THEN disk
    ELSE IF fault = "meta_write"
    THEN Disk(Corrupt, disk.index_file, disk.embeddings_file)
    ELSE LET mf == Written(st.metadata) IN
         IF fault = "vec_open" THEN Disk(mf, disk.index_file, disk.embeddings_file)
         ELSE IF faiss
         THEN Disk(mf,
                   IF fault = "vec_write" THEN Corrupt ELSE Written(st.index),
                   disk.embeddings_file)
         ELSE Disk(mf,
                   disk.index_file,
                   IF fault = "vec_write" THEN Corrupt ELSE Written(st.embeddings))

\* ------------------------------------------------------------------ __init__
\* The constructor: [raised, st].  Reading a truncated file raises.
PolicyVectorStore_init(disk, faiss) ==
    IF faiss
    THEN IF Exists(disk.index_file) /\ Exists(disk.metadata_file)
         THEN IF disk.index_file.state = "corrupt" \/ disk.metadata_file.state = "corrupt"
              THEN [raised |-> TRUE, st |-> EmptyStore]
              ELSE [raised |-> FALSE,
                    st |-> Store(disk.index_file.data, <<>>, disk.metadata_file.data)]
         ELSE [raised |-> FALSE, st |-> EmptyStore]
    ELSE IF Exists(disk.embeddings_file) /\ Exists(disk.metadata_file)
         THEN IF disk.embeddings_file.state = "corrupt" \/ disk.metadata_file.state = "corrupt"
              THEN [raised |-> TRUE, st |-> EmptyStore]
              ELSE [raised |-> FALSE,
                    st |-> Store(<<>>, disk.embeddings_file.data, disk.metadata_file.data)]
         ELSE [raised |-> FALSE, st |-> EmptyStore]

\* ------------------------------------------------------------------ load_policies_from_file
\* faulty variant: the guard against a second ingestion is missing
NeverPopulated(st, force) == FALSE

\* the guard "if self.metadata and not force: return True"
AlreadyPopulated(st, force) == st.metadata # <<>> /\ ~force

\* open(policies_file) and file.read() succeed
Readable(files, policies_file) == files[policies_file].state = "ok"

\* the number of embeddings a call generates
RowsToAdd(st, files, policies_file, force) ==
    IF AlreadyPopulated(st, force) \/ ~Readable(files, policies_file) THEN 0
    ELSE Len(_split_policies(files[policies_file].content))

\* faulty variant: the new chunks replace the stored ones
IngestReplaces(st, faiss, content, raw) ==
    LET policy_chunks == _split_policies(content)
        metadatas == Metadatas(policy_chunks)
        emb == _normalize_inplace(raw)
    IN  IF faiss
        THEN Store(emb, st.embeddings, metadatas)
        ELSE Store(st.index, emb, metadatas)

\* faulty variant: the new chunks are put before the stored ones
IngestPrepends(st, faiss, content, raw) ==
    LET policy_chunks == _split_policies(content)
        metadatas == Metadatas(policy_chunks)
        emb == _normalize_inplace(raw)
    IN  IF faiss
        THEN Store(emb \o st.index, st.embeddings, metadatas \o st.metadata)
        ELSE Store(st.index, emb \o st.embeddings, metadatas \o st.metadata)

\* what a load does once it has read the source
Ingest(st, faiss, content, raw) ==
    LET policy_chunks == _split_policies(content)
        metadatas == Metadatas(policy_chunks)
        emb == _normalize_inplace(raw)
    IN  IF faiss
        THEN Store(st.index \o emb, st.embeddings, st.metadata \o metadatas)
        ELSE Store(st.index, st.embeddings \o emb, st.metadata \o metadatas)

\* faulty variant: the source is opened before the guard is tested
LoadOpensFirst(st, disk, faiss, files, policies_file, force, raw, fault) ==
    IF ~Readable(files, policies_file)
    THEN [raised |-> FALSE, ok |-> FALSE, opened |-> TRUE, saved |-> FALSE, st |-> st, disk |-> disk]
    ELSE IF AlreadyPopulated(st, force)
    THEN [raised |-> FALSE, ok |-> TRUE, opened |-> TRUE, saved |-> FALSE, st |-> st, disk |-> disk]
    ELSE LET st2 == Ingest(st, faiss, files[policies_file].content, raw)
         IN  [raised |-> FALSE, ok |-> TRUE, opened |-> TRUE, saved |-> TRUE, st |-> st2,
              disk |-> _save_index(st2, disk, faiss, fault)]

\* faulty variant: the except clause reports success
LoadReportsSuccess(st, disk, faiss, files, policies_file, force, raw, fault) ==
    IF AlreadyPopulated(st, force)
    THEN [raised |-> FALSE, ok |-> TRUE, opened |-> FALSE, saved |-> FALSE, st |-> st, disk |-> disk]
    ELSE IF ~Readable(files, policies_file)
    THEN [raised |-> FALSE, ok |-> TRUE, opened |-> TRUE, saved |-> FALSE, st |-> st, disk |-> disk]
    ELSE LET st2 == Ingest(st, faiss, files[policies_file].content, raw)
         IN  [raised |-> FALSE, ok |-> TRUE, opened |-> TRUE, saved |-> TRUE, st |-> st2,
              disk |-> _save_index(st2, disk, faiss, fault)]

\* faulty variant: _save_index runs before the new chunks are added
LoadSavesFirst(st, disk, faiss, files, policies_file, force, raw, fault) ==
    IF AlreadyPopulated(st, force)
    THEN [raised |-> FALSE, ok |-> TRUE, opened |-> FALSE, saved |-> FALSE, st |-> st, disk |-> disk]
    ELSE IF ~Readable(files, policies_file)
    THEN [raised |-> FALSE, ok |-> FALSE, opened |-> TRUE, saved |-> FALSE, st |-> st, disk |-> disk]
    ELSE [raised |-> FALSE, ok |-> TRUE, opened |-> TRUE, saved |-> TRUE,
          st |-> Ingest(st, faiss, files[policies_file].content, raw),
          disk |-> _save_index(st, disk, faiss, fault)]

\* [raised, ok, opened, saved, st, disk]; raw is what np.random.rand returns.
\* Every exception of the body is caught and turned into False.
load_policies_from_file(st, disk, faiss, files, policies_file, force, raw, fault) ==
    IF AlreadyPopulated(st, force)
    THEN [raised |-> FALSE, ok |-> TRUE, opened |-> FALSE, saved |-> FALSE, st |-> st, disk |-> disk]
    ELSE IF ~Readable(files, policies_file)
    THEN [raised |-> FALSE, ok |-> FALSE, opened |-> TRUE, saved |-> FALSE, st |-> st, disk |-> disk]
    ELSE LET st2 == Ingest(st, faiss, files[policies_file].content, raw)
         IN  [raised |-> FALSE, ok |-> TRUE, opened |-> TRUE, saved |-> TRUE, st |-> st2,
              disk |-> _save_index(st2, disk, faiss, fault)]

\* ------------------------------------------------------------------ clear_collection
\* faulty variant: the vectors are kept, only the metadata are reset
ClearMetadataOnly(st, disk, faiss, fault) ==
    LET st2 == Store(st.index, st.embeddings, <<>>)
    IN  [raised |-> FALSE, ok |-> TRUE, st |-> st2,
         disk |-> _save_index(st2, disk, faiss, fault)]

clear_collection(st, disk, faiss, fault) ==
    [raised |-> FALSE, ok |-> TRUE, st |-> EmptyStore,
     disk |-> _save_index(EmptyStore, disk, faiss, fault)]

\* ------------------------------------------------------------------ get_policy_by_category
\* scores are in units of 1/100, the unit of an inner product of two stored rows
FixedScore == 100
\* 'distance': None
NoDistance == -1

RECURSIVE CategoryLoop(_, _, _)
\* faulty variant: the category test is missing
CategoryLoopNoTest(rest, category, category_policies) ==
    IF rest = <<>> THEN category_policies
    ELSE CategoryLoop(Tail(rest), category,
                      Append(category_policies,
                             [text |-> Head(rest).text, metadata |-> Head(rest),
                              distance |-> FixedScore]))

\* for i, metadata in enumerate(self.metadata): ...
CategoryLoop(rest, category, category_policies) ==
    IF rest = <<>> THEN category_policies
    ELSE CategoryLoop(Tail(rest), category,
                      IF Head(rest).category = category
                      THEN Append(category_policies,
                                  [text |-> Head(rest).text, metadata |-> Head(rest),
                                   distance |-> FixedScore])
                      ELSE category_policies)

get_policy_by_category(st, category) ==
    [raised |-> FALSE, results |-> CategoryLoop(st.metadata, category, <<>>)]

\* ------------------------------------------------------------------ get_all_policies
get_all_policies(st) ==
    [raised |-> FALSE,
     results |-> [i \in 1..Len(st.metadata) |->
                    [text |-> st.metadata[i].text, metadata |-> st.metadata[i],
                     distance |-> NoDistance]]]

\* ------------------------------------------------------------------ get_collection_info
get_collection_info(st) == [name |-> "university_policies",
                            document_count |-> Len(st.metadata),
                            persist_directory |-> "./faiss_db"]

\* ------------------------------------------------------------------ search_policies
\* (embeddings @ query_embedding.T).ravel(), and the inner products FAISS computes
Similarities(vecs, q) == [i \in 1..Len(vecs) |-> Dot(vecs[i], q)]

\* The orders in which a descending sort may list the rows 0..n-1: neither
\* np.argsort (quicksort) nor the FAISS result heap fixes the order of equal scores.
SortedOrders(sims) ==
    LET n == Len(sims) IN
    {p \in [1..n -> 0..(n - 1)] :
        /\ \A i, j \in 1..n : i # j => p[i] # p[j]
        /\ \A i \in 1..(n - 1) : sims[p[i] + 1] >= sims[p[i + 1] + 1]}

\* index.search pads the hits it lacks with index -1 and the lowest score
PadScore == -1000
PadHits(hits, k) == hits \o [i \in 1..(k - Len(hits)) |-> -1]

\* faulty variant: every index is kept
AnyIndex(idx, n) == TRUE

\* the filter "if 0 <= idx < len(self.metadata)"
InRange(idx, n) == 0 <= idx /\ idx < n

\* list[idx] of a list of n items: a negative idx counts from the end, an idx
\* outside -n..n-1 raises IndexError
PyIndexable(idx, n) == -n <= idx /\ idx < n
PyPos(idx, n) == IF idx < 0 THEN idx + n + 1 ELSE idx + 1

\* the body of the try block: [raised, results, indices, st]; indices lists the
\* row numbers the filter let through, one for each result, and st is the store
\* as the call leaves it
SearchBody(st, faiss, query_raw, n_results, order) ==
    LET query_embedding == NormalizeRow(query_raw)
        vecs == IF faiss THEN st.index ELSE st.embeddings
        sims == Similarities(vecs, query_embedding)
        n == Len(st.metadata)
        Score(idx) == IF 0 <= idx /\ idx < Len(sims) THEN sims[idx + 1] ELSE PadScore
        Result(idx) == [text |-> st.metadata[PyPos(idx, n)].text,
                        metadata |-> st.metadata[PyPos(idx, n)],
                        distance |-> Score(idx)]
        Results(indices) ==
            LET kept == SelectSeq(indices, LAMBDA idx : InRange(idx, n))
            IN  IF \E i \in 1..Len(kept) : ~PyIndexable(kept[i], n)
                THEN [raised |-> TRUE, results |-> <<>>, indices |-> <<>>, st |-> st]
                ELSE [raised |-> FALSE,
                      results |-> [i \in 1..Len(kept) |-> Result(kept[i])],
                      indices |-> kept, st |-> st]
    IN  IF faiss
        THEN IF n_results <= 0
             THEN [raised |-> TRUE, results |-> <<>>, indices |-> <<>>, st |-> st]
                  \* index.search rejects k <= 0
             ELSE Results(PadHits(SubSeq(order, 1, Min(n_results, Len(order))),
                                  n_results))
        ELSE IF n = 0
             THEN [raised |-> FALSE, results |-> <<>>, indices |-> <<>>, st |-> st]
             ELSE Results(PyPrefix(order, n_results))

\* faulty variant: the try block without its except clause
SearchUncaught(st, faiss, query_raw, n_results, order) ==
    SearchBody(st, faiss, query_raw, n_results, order)

\* faulty variant: the search keeps only the rows it returned
SearchTruncatesStore(st, faiss, query_raw, n_results, order) ==
    LET r == SearchBody(st, faiss, query_raw, n_results, order)
        n == Len(r.results)
    IN  [raised |-> FALSE, results |-> r.results, indices |-> r.indices,
         st |-> Store(SubSeq(st.index, 1, Min(n, Len(st.index))),
                      SubSeq(st.embeddings, 1, Min(n, Len(st.embeddings))),
                      SubSeq(st.metadata, 1, Min(n, Len(st.metadata))))]

\* try: ... except Exception: return []
search_policies(st, faiss, query_raw, n_results, order) ==
    LET r == SearchBody(st, faiss, query_raw, n_results, order)
    IN  IF r.raised THEN [raised |-> FALSE, results |-> <<>>, indices |-> <<>>, st |-> st] ELSE r

\* ------------------------------------------------------------------ the state machine
CurStore == Store(index, embeddings, metadata)
CurDisk == Disk(metadata_file, index_file, embeddings_file)

\* ret.before is the chunk count when the call began; ret.saved tells that the call
\* ran _save_index and ret.written that every write of it succeeded; ret.repeat
\* tells that the call before was the same load, both without force.
NoRet == [op |-> "none", path |-> "", force |-> FALSE, repeat |-> FALSE, k |-> 0,
          before |-> 0, ok |-> TRUE, raised |-> FALSE, opened |-> FALSE,
          saved |-> FALSE, written |-> FALSE, results |-> <<>>, document_count |-> 0,
          category |-> "", indices |-> <<>>, text |-> <<>>, arg |-> <<>>, out |-> <<>>,
          day |-> "", name |-> "", error |-> FALSE, branch |-> "", free |-> <<>>,
          busy |-> <<>>, shown |-> <<>>, processed |-> FALSE]

SetStore(st) ==
    /\ index' = st.index
    /\ embeddings' = st.embeddings
    /\ metadata' = st.metadata

SetDisk(disk) ==
    /\ metadata_file' = disk.metadata_file
    /\ index_file' = disk.index_file
    /\ embeddings_file' = disk.embeddings_file

\* a load is explored only while the store stays within MaxChunks
Fits(st, rows) ==
    Max(Max(Len(st.index), Len(st.embeddings)), Len(st.metadata)) + rows <= MaxChunks

\* no tool has been created and no FacultyDataLoader constructed
NoAgent ==
    /\ _vector_store = "None"
    /\ _data_loader = "None"
    /\ tools = <<>>
    /\ loaders = <<>>

Init ==
    /\ NoAgent
    /\ HAS_FAISS \in BOOLEAN
    /\ \E doc \in Docs :
         source_files = [p \in Paths |->
            IF p = "policies.txt" THEN [state |-> "ok", content |-> doc]
            ELSE IF p = "unreadable.txt" THEN [state |-> "unreadable", content |-> <<>>]
            ELSE [state |-> "missing", content |-> <<>>]]
    /\ alive = TRUE
    /\ index = <<>>
    /\ embeddings = <<>>
    /\ metadata = <<>>
    /\ metadata_file = Absent
    /\ index_file = Absent
    /\ embeddings_file = Absent
    /\ ret = NoRet

\* A new process constructs PolicyVectorStore() on the same persist directory.
Construct ==
    \E r \in {PolicyVectorStore_init(CurDisk, HAS_FAISS)} :
    /\ alive' = ~r.raised
    /\ SetStore(r.st)
    /\ ret' = [NoRet EXCEPT !.op = "init", !.raised = r.raised, !.ok = ~r.raised]
    /\ UNCHANGED <<agent, HAS_FAISS, source_files, persisted>>

\* initialize_components: PolicyVectorStore() then load_policies_from_file("policies.txt")
InitializeComponents ==
    \E c \in {PolicyVectorStore_init(CurDisk, HAS_FAISS)} :
    IF c.raised
    THEN /\ alive' = FALSE
         /\ SetStore(c.st)
         /\ ret' = [NoRet EXCEPT !.op = "startup", !.raised = TRUE, !.ok = FALSE]
         /\ UNCHANGED <<agent, HAS_FAISS, source_files, persisted>>
    ELSE \E rows \in {RowsToAdd(c.st, source_files, "policies.txt", FALSE)} :
         /\ Fits(c.st, rows)
         /\ \E raw \in RandomMatrices(rows), fault \in Faults :
              \E r \in {load_policies_from_file(c.st, CurDisk, HAS_FAISS, source_files,
                                               "policies.txt", FALSE, raw, fault)} :
                  /\ (~r.saved => fault = "none")
                  /\ alive' = TRUE
                  /\ SetStore(r.st)
                  /\ SetDisk(r.disk)
                  /\ ret' = [NoRet EXCEPT !.op = "startup", !.path = "policies.txt",
                                          !.before = Len(c.st.metadata),
                                          !.ok = r.ok, !.opened = r.opened,
                                          !.saved = r.saved,
                                          !.written = (r.saved /\ fault = "none")]
         /\ UNCHANGED <<agent, HAS_FAISS, source_files>>

LoadPoliciesFromFile(policies_file, force) ==
    \E rows \in {RowsToAdd(CurStore, source_files, policies_file, force)} :
    /\ alive
    /\ Fits(CurStore, rows)
    /\ \E raw \in RandomMatrices(rows), fault \in Faults :
         \E r \in {load_policies_from_file(CurStore, CurDisk, HAS_FAISS, source_files,
                                          policies_file, force, raw, fault)} :
             /\ (~r.saved => fault = "none")
             /\ SetStore(r.st)
             /\ SetDisk(r.disk)
             /\ ret' = [NoRet EXCEPT !.op = "load", !.path = policies_file,
                                     !.force = force,
                                     !.repeat = (/\ ret.op = "load"
                                                 /\ ret.path = policies_file
                                                 /\ ~ret.force /\ ~force),
                                     !.before = Len(metadata), !.raised = r.raised,
                                     !.ok = r.ok, !.opened = r.opened, !.saved = r.saved,
                                     !.written = (r.saved /\ fault = "none")]
    /\ UNCHANGED <<agent, HAS_FAISS, source_files, alive>>

SearchPolicies(query_raw, n_results) ==
    /\ alive
    /\ \E order \in SortedOrders(Similarities(IF HAS_FAISS THEN index ELSE embeddings,
                                              NormalizeRow(query_raw))) :
         \E r \in {search_policies(CurStore, HAS_FAISS, query_raw, n_results, order)} :
             /\ ret' = [NoRet EXCEPT !.op = "search", !.k = n_results,
                                     !.raised = r.raised,
                                     !.results = r.results, !.indices = r.indices]
             /\ SetStore(r.st)
    /\ UNCHANGED <<agent, HAS_FAISS, source_files, alive, persisted>>

ClearCollection ==
    /\ alive
    /\ \E fault \in Faults :
         \E r \in {clear_collection(CurStore, CurDisk, HAS_FAISS, fault)} :
             /\ SetStore(r.st)
             /\ SetDisk(r.disk)
             /\ ret' = [NoRet EXCEPT !.op = "clear", !.before = Len(metadata),
                                     !.raised = r.raised, !.ok = r.ok, !.saved = TRUE,
                                     !.written = (fault = "none")]
    /\ UNCHANGED <<agent, HAS_FAISS, source_files, alive>>

GetCollectionInfo ==
    /\ alive
    /\ ret' = [NoRet EXCEPT !.op = "info",
                            !.document_count = get_collection_info(CurStore).document_count]
    /\ UNCHANGED <<agent, HAS_FAISS, source_files, alive, store, persisted>>

\* the categories a caller asks for: two that chunks of Docs have and one that
\* none has
AskedCategories == {"workload_management", "general", "faculty_development"}

GetPolicyByCategory(category) ==
    /\ alive
    /\ \E r \in {get_policy_by_category(CurStore, category)} :
           ret' = [NoRet EXCEPT !.op = "by_category", !.category = category,
                                !.raised = r.raised, !.results = r.results]
    /\ UNCHANGED <<agent, HAS_FAISS, source_files, alive, store, persisted>>

GetAllPolicies ==
    /\ alive
    /\ \E r \in {get_all_policies(CurStore)} :
           ret' = [NoRet EXCEPT !.op = "all", !.raised = r.raised, !.results = r.results]
    /\ UNCHANGED <<agent, HAS_FAISS, source_files, alive, store, persisted>>

Next ==
    \/ Construct
    \/ InitializeComponents
    \/ \E policies_file \in Paths, force \in BOOLEAN :
         LoadPoliciesFromFile(policies_file, force)
    \/ \E query_raw \in RawVecs, n_results \in -1..MaxK :
         SearchPolicies(query_raw, n_results)
    \/ \E category \in AskedCategories : GetPolicyByCategory(category)
    \/ GetAllPolicies
    \/ ClearCollection
    \/ GetCollectionInfo

Spec == Init /\ [][Next]_vars

\* ------------------------------------------------------------------ the text functions
\* The lines of a policies file: markers, continuations, a blank line, an indented
\* marker, and a line that holds a number but does not begin with it.
LineIndented == <<" ", "3.", "Staff", "meeting">>
LineRef == <<"see", "2.">>
Lines == {Blank, Line1, Line2, LineCont, LineIndented, LineRef}

\* every sequence of at most n elements of S
SeqUpTo(S, n) == UNION {[1..m -> S] : m \in 0..n}

Words == {"Hours", "timetable", "Staff", "researchers", "break", "overlap"}

\* the content of policies.txt
Content == source_files["policies.txt"].content

InitSplit ==
    /\ NoAgent
    /\ HAS_FAISS \in BOOLEAN
    /\ \E doc \in SeqUpTo(Lines, MaxLines) :
         source_files = [p \in Paths |->
            IF p = "policies.txt" THEN [state |-> "ok", content |-> doc]
            ELSE IF p = "unreadable.txt" THEN [state |-> "unreadable", content |-> <<>>]
            ELSE [state |-> "missing", content |-> <<>>]]
    /\ alive = TRUE
    /\ index = <<>>
    /\ embeddings = <<>>
    /\ metadata = <<>>
    /\ metadata_file = Absent
    /\ index_file = Absent
    /\ embeddings_file = Absent
    /\ ret = NoRet

\* self._split_policies(content) on the content read from policies.txt
SplitPolicies ==
    /\ alive
    /\ ret' = [NoRet EXCEPT !.op = "split", !.results = _split_policies(Content)]
    /\ UNCHANGED <<agent, HAS_FAISS, source_files, alive, store, persisted>>

\* self._categorize_policy(policy_text)
CategorizePolicy(policy_text) ==
    /\ alive
    /\ ret' = [NoRet EXCEPT !.op = "categorize", !.text = policy_text,
                            !.category = _categorize_policy(policy_text)]
    /\ UNCHANGED <<agent, HAS_FAISS, source_files, alive, store, persisted>>

\* _split_policies on every document of at most MaxLines lines
SpecSplit == InitSplit /\ [][SplitPolicies]_vars

\* _categorize_policy on every text of at most MaxWords words
SpecCategorize ==
    Init /\ [][\E policy_text \in SeqUpTo(Words, MaxWords) : CategorizePolicy(policy_text)]_vars

\* Only restarts of the application: every step is initialize_components.
SpecStartup == Init /\ [][InitializeComponents]_vars

\* ------------------------------------------------------------------ strings as characters
\* The times of data_loader.py are strings whose characters matter: they are
\* sequences of one-character strings here.
Digits == <<"0", "1", "2", "3", "4", "5", "6", "7", "8", "9">>
IsDigit(c) == \E i \in 1..Len(Digits) : Digits[i] = c
DigitValue(c) == (CHOOSE i \in 1..Len(Digits) : Digits[i] = c) - 1

\* str.upper(), for the letters of the model
UpperChar(c) == CASE c = "a" -> "A" [] c = "p" -> "P" [] c = "m" -> "M" [] OTHER -> c
Upper(str) == [i \in 1..Len(str) |-> UpperChar(str[i])]

\* sub in str
HasSubstring(str, sub) ==
    \E i \in 1..(Len(str) - Len(sub) + 1) : SubSeq(str, i, i + Len(sub) - 1) = sub

\* re.sub(r'[AP]M', '', str)
RECURSIVE RemoveMeridiem(_)
RemoveMeridiem(str) ==
    IF Len(str) < 2 THEN str
    ELSE IF str[1] \in {"A", "P"} /\ str[2] = "M"
    THEN RemoveMeridiem(SubSeq(str, 3, Len(str)))
    ELSE <<str[1]>> \o RemoveMeridiem(Tail(str))

\* str.split(sep) for a separator of one character
RECURSIVE SplitAt(_, _)
SplitAt(str, sep) ==
    IF \A i \in 1..Len(str) : str[i] # sep THEN <<str>>
    ELSE LET at == CHOOSE i \in 1..Len(str) :
                       str[i] = sep /\ \A j \in 1..(i - 1) : str[j] # sep
         IN  <<SubSeq(str, 1, at - 1)>> \o SplitAt(SubSeq(str, at + 1, Len(str)), sep)

\* int(str) accepts digits between optional blanks; IntOf is its value
IsInt(str) == Strip(str) # <<>> /\ \A i \in 1..Len(Strip(str)) : IsDigit(Strip(str)[i])
RECURSIVE DigitsValue(_)
DigitsValue(ds) ==
    IF ds = <<>> THEN 0
    ELSE DigitsValue(SubSeq(ds, 1, Len(ds) - 1)) * 10 + DigitValue(ds[Len(ds)])
IntOf(str) == DigitsValue(Strip(str))

\* str(n) for n >= 0
RECURSIVE Decimal(_)
Decimal(n) ==
    IF n < 10 THEN <<Digits[n + 1]>> ELSE Decimal(n \div 10) \o <<Digits[(n % 10) + 1]>>

\* f"{n:02d}"
Format02d(n) == IF n < 10 THEN <<"0">> \o Decimal(n) ELSE Decimal(n)

\* ------------------------------------------------------------------ _convert_to_24hour
\* [raised, value]: a ValueError of the unpacking or of int() leaves the function
_convert_to_24hour(time_str0) ==
    LET time_str == Upper(Strip(time_str0))
        AM == HasSubstring(time_str, <<"A", "M">>)
        PM == HasSubstring(time_str, <<"P", "M">>)
    IN  IF AM \/ PM
        THEN LET stripped == Strip(RemoveMeridiem(time_str))
                 time_part == IF ":" \in {stripped[i] : i \in 1..Len(stripped)}
                              THEN stripped ELSE stripped \o <<":", "0", "0">>
                 parts == SplitAt(time_part, ":")
             IN  IF Len(parts) # 2 \/ ~IsInt(parts[1]) \/ ~IsInt(parts[2])
                 THEN [raised |-> TRUE, value |-> <<>>]
                 ELSE LET hour == IntOf(parts[1])
                          minute == IntOf(parts[2])
                          hour24 == IF PM /\ hour # 12 THEN hour + 12
                                    ELSE IF AM /\ hour = 12 THEN 0
                                    ELSE hour
                      IN  [raised |-> FALSE,
                           value |-> Format02d(hour24) \o <<":">> \o Format02d(minute)]
        ELSE [raised |-> FALSE,
              value |-> IF ":" \in {time_str[i] : i \in 1..Len(time_str)}
                        THEN time_str ELSE time_str \o <<":", "0", "0">>]

\* The valid time texts: an hour, written with or without a leading zero, an
\* optional ":mm", and for a 12-hour text a meridiem in one of three spellings.
Meridiems == {"", "AM", "PM"}
MinuteChoices == {0, 30}
TimeInputs ==
    {t \in [hour : 0..23, padded : BOOLEAN, minutes : BOOLEAN, minute : MinuteChoices,
            meridiem : Meridiems, spelling : {"2 PM", "2PM", "2 pm"}] :
        /\ t.meridiem # "" => t.hour \in 1..12
        /\ t.meridiem = "" => t.spelling = "2 PM"
        /\ t.padded => t.hour < 10
        /\ ~t.minutes => t.minute = 0}

\* the text of a time input
TimeText(t) ==
    LET hour == IF t.padded THEN Format02d(t.hour) ELSE Decimal(t.hour)
        minute == IF t.minutes THEN <<":">> \o Format02d(t.minute) ELSE <<>>
        letters == IF t.meridiem = "AM" THEN <<"A", "M">> ELSE <<"P", "M">>
        meridiem == IF t.meridiem = "" THEN <<>>
                    ELSE IF t.spelling = "2 PM" THEN <<" ">> \o letters
                    ELSE IF t.spelling = "2PM" THEN letters
                    ELSE <<" ">> \o (IF t.meridiem = "AM" THEN <<"a", "m">> ELSE <<"p", "m">>)
    IN  hour \o minute \o meridiem

\* self._convert_to_24hour(time_str)
ConvertTo24Hour(t) ==
    /\ \E r \in {_convert_to_24hour(TimeText(t))} :
           ret' = [NoRet EXCEPT !.op = "convert", !.arg = t, !.raised = r.raised,
                                !.out = r.value]
    /\ UNCHANGED <<agent, HAS_FAISS, source_files, alive, store, persisted>>

\* _convert_to_24hour on every valid time text
SpecTime == Init /\ [][\E t \in TimeInputs : ConvertTo24Hour(t)]_vars

\* ------------------------------------------------------------------ FacultyDataLoader
\* The rows of timetable.csv and faculty_workload.csv; the class times of the file
\* are zero-padded.
T0900 == <<"0", "9", ":", "0", "0", "-", "1", "0", ":", "0", "0">>
T1000 == <<"1", "0", ":", "0", "0", "-", "1", "1", ":", "0", "0">>
T1400 == <<"1", "4", ":", "0", "0", "-", "1", "5", ":", "0", "0">>
TimetableRows ==
    {[Faculty |-> "Prof.Sharma", Day |-> "Monday", Time |-> T0900,
      Course |-> "CS101", Room |-> "R101"],
     [Faculty |-> "Prof.Sharma", Day |-> "Tuesday", Time |-> T1400,
      Course |-> "CS102", Room |-> "R102"],
     [Faculty |-> "Prof.Mehta", Day |-> "Monday", Time |-> T0900,
      Course |-> "EE101", Room |-> "R102"],
     [Faculty |-> "Prof.Mehta", Day |-> "Monday", Time |-> T1000,
      Course |-> "EE102", Room |-> "R101"]}
FacultyRows == <<[Name |-> "Prof.Sharma"], [Name |-> "Prof.Mehta"], [Name |-> "Prof.Verma"]>>

\* __init__: the columns StartTime and EndTime are the two parts of Time
FacultyDataLoader_init(faculty_csv, timetable_csv) ==
    [faculty_df |-> faculty_csv,
     timetable_df |-> [i \in 1..Len(timetable_csv) |->
        [Faculty |-> timetable_csv[i].Faculty, Day |-> timetable_csv[i].Day,
         Time |-> timetable_csv[i].Time, Course |-> timetable_csv[i].Course,
         Room |-> timetable_csv[i].Room,
         StartTime |-> SplitAt(timetable_csv[i].Time, "-")[1],
         EndTime |-> SplitAt(timetable_csv[i].Time, "-")[2]]]]

\* column.str.contains(pattern, case=False) for a pattern of plain characters
StrContains(value, pattern) == In(Lower(pattern), Lower(value))

\* ord(c) for the characters of a time
Ord(c) == CASE c = " " -> 32
            [] IsDigit(c) -> 48 + DigitValue(c)
            [] c = ":" -> 58
            [] c = "A" -> 65
            [] c = "M" -> 77
            [] c = "P" -> 80

\* a < b and a <= b of two str
RECURSIVE StrLess(_, _)
StrLess(a, b) ==
    IF b = <<>> THEN FALSE
    ELSE IF a = <<>> THEN TRUE
    ELSE IF a[1] # b[1] THEN Ord(a[1]) < Ord(b[1])
    ELSE StrLess(Tail(a), Tail(b))
StrLessEq(a, b) == a = b \/ StrLess(a, b)

\* the first occurrences of the items of a list, in order
RECURSIVE Unique(_)
Unique(list) ==
    IF list = <<>> THEN <<>>
    ELSE LET init == Unique(SubSeq(list, 1, Len(list) - 1))
             last == list[Len(list)]
         IN  IF \E i \in 1..Len(init) : init[i] = last THEN init ELSE Append(init, last)

\* [raised, free_faculty, busy_faculty]
get_free_faculty(loader, day, time) ==
    LET c == _convert_to_24hour(time)
        time_24 == c.value
        busy == SelectSeq(loader.timetable_df, LAMBDA row :
                    /\ StrContains(row.Day, day)
                    /\ StrLessEq(row.StartTime, time_24)
                    /\ StrLess(time_24, row.EndTime))
        busy_faculty == [i \in 1..Len(busy) |-> busy[i].Faculty]
        all_faculty == Unique([i \in 1..Len(loader.faculty_df) |-> loader.faculty_df[i].Name])
    IN  IF c.raised THEN [raised |-> TRUE, free_faculty |-> <<>>, busy_faculty |-> <<>>]
        ELSE [raised |-> FALSE,
              free_faculty |-> SelectSeq(all_faculty, LAMBDA f :
                                  \A i \in 1..Len(busy_faculty) : busy_faculty[i] # f),
              busy_faculty |-> [i \in 1..Len(busy) |->
                                  [name |-> busy[i].Faculty, course |-> busy[i].Course,
                                   room |-> busy[i].Room]]]

\* the sessions of get_faculty_schedule and of get_room_schedule
FacultySessions(rows) ==
    [i \in 1..Len(rows) |-> [day |-> rows[i].Day, time |-> rows[i].Time,
                             course |-> rows[i].Course, room |-> rows[i].Room]]
RoomSessions(rows) ==
    [i \in 1..Len(rows) |-> [day |-> rows[i].Day, time |-> rows[i].Time,
                             course |-> rows[i].Course, faculty |-> rows[i].Faculty]]

\* faulty variant: the test for an empty selection comes before the day filter
FacultyScheduleTestsEarly(loader, faculty_name, day) ==
    LET by_name == SelectSeq(loader.timetable_df,
                             LAMBDA row : StrContains(row.Faculty, faculty_name))
        faculty_schedule == IF day # ""
                            THEN SelectSeq(by_name, LAMBDA row : StrContains(row.Day, day))
                            ELSE by_name
    IN  IF by_name = <<>>
        THEN [error |-> TRUE, sessions |-> <<>>]
        ELSE [error |-> FALSE, sessions |-> FacultySessions(faculty_schedule)]

\* [error, sessions]; day = "" stands for None
get_faculty_schedule(loader, faculty_name, day) ==
    LET by_name == SelectSeq(loader.timetable_df,
                             LAMBDA row : StrContains(row.Faculty, faculty_name))
        faculty_schedule == IF day # ""
                            THEN SelectSeq(by_name, LAMBDA row : StrContains(row.Day, day))
                            ELSE by_name
    IN  IF faculty_schedule = <<>>
        THEN [error |-> TRUE, sessions |-> <<>>]
        ELSE [error |-> FALSE, sessions |-> FacultySessions(faculty_schedule)]

get_room_schedule(loader, room, day) ==
    LET by_room == SelectSeq(loader.timetable_df, LAMBDA row : StrContains(row.Room, room))
        room_schedule == IF day # ""
                         THEN SelectSeq(by_room, LAMBDA row : StrContains(row.Day, day))
                         ELSE by_room
    IN  IF room_schedule = <<>>
        THEN [error |-> TRUE, sessions |-> <<>>]
        ELSE [error |-> FALSE, sessions |-> RoomSessions(room_schedule)]

\* _handle_room_allocation_intelligent, by the branch that builds the response
_handle_room_allocation_intelligent(loader, faculty, day) ==
    IF faculty = "" \/ day = "" THEN "clarification"
    ELSE LET result == get_faculty_schedule(loader, faculty, day)
         IN  IF result.error THEN "not found"
             ELSE IF result.sessions # <<>> THEN "sessions"
             ELSE "no classes scheduled"

\* _handle_faculty_schedule_intelligent, by the branch that builds the response
_handle_faculty_schedule_intelligent(loader, faculty, day) ==
    IF faculty = "" THEN "clarification"
    ELSE IF day # ""
    THEN LET result == get_faculty_schedule(loader, faculty, day)
         IN  IF result.error THEN "not found"
             ELSE IF result.sessions # <<>> THEN "sessions"
             ELSE "no classes scheduled"
    ELSE "weekly schedule"

\* ------------------------------------------------------------------ the loader's operations
\* One FacultyDataLoader, "A", over a timetable of at most MaxRows rows.
InitLoader ==
    /\ HAS_FAISS = FALSE
    /\ source_files = [p \in Paths |->
            IF p = "policies.txt" THEN [state |-> "ok", content |-> DocTwo]
            ELSE IF p = "unreadable.txt" THEN [state |-> "unreadable", content |-> <<>>]
            ELSE [state |-> "missing", content |-> <<>>]]
    /\ alive = TRUE
    /\ index = <<>>
    /\ embeddings = <<>>
    /\ metadata = <<>>
    /\ metadata_file = Absent
    /\ index_file = Absent
    /\ embeddings_file = Absent
    /\ ret = NoRet
    /\ _vector_store = "None"
    /\ _data_loader = "None"
    /\ tools = <<>>
    /\ \E timetable_csv \in SeqUpTo(TimetableRows, MaxRows) :
         loaders = [l \in {"A"} |-> FacultyDataLoader_init(FacultyRows, timetable_csv)]

\* the times, days, names and rooms asked for
QueryTimes == {t \in TimeInputs : t.hour \in {9, 10, 11, 2} /\ t.spelling = "2 PM"}
QueryDays == {"Monday", "tuesday"}
QueryNames == {"Sharma", "Prof.Mehta", "Verma"}
QueryRooms == {"101", "R102"}

GetFreeFaculty(day, t) ==
    /\ \E r \in {get_free_faculty(loaders["A"], day, TimeText(t))} :
           ret' = [NoRet EXCEPT !.op = "free_faculty", !.day = day, !.arg = t,
                                !.raised = r.raised, !.free = r.free_faculty,
                                !.busy = r.busy_faculty]
    /\ UNCHANGED <<agent, HAS_FAISS, source_files, alive, store, persisted>>

GetFacultySchedule(faculty_name, day) ==
    /\ \E r \in {get_faculty_schedule(loaders["A"], faculty_name, day)} :
           ret' = [NoRet EXCEPT !.op = "faculty_schedule", !.name = faculty_name,
                                !.day = day, !.error = r.error, !.results = r.sessions]
    /\ UNCHANGED <<agent, HAS_FAISS, source_files, alive, store, persisted>>

GetRoomSchedule(room, day) ==
    /\ \E r \in {get_room_schedule(loaders["A"], room, day)} :
           ret' = [NoRet EXCEPT !.op = "room_schedule", !.name = room,
                                !.day = day, !.error = r.error, !.results = r.sessions]
    /\ UNCHANGED <<agent, HAS_FAISS, source_files, alive, store, persisted>>

HandleRoomAllocation(faculty, day) ==
    /\ ret' = [NoRet EXCEPT !.op = "room_allocation", !.name = faculty, !.day = day,
                            !.branch = _handle_room_allocation_intelligent(
                                           loaders["A"], faculty, day)]
    /\ UNCHANGED <<agent, HAS_FAISS, source_files, alive, store, persisted>>

HandleFacultySchedule(faculty, day) ==
    /\ ret' = [NoRet EXCEPT !.op = "faculty_schedule_handler", !.name = faculty,
                            !.day = day,
                            !.branch = _handle_faculty_schedule_intelligent(
                                           loaders["A"], faculty, day)]
    /\ UNCHANGED <<agent, HAS_FAISS, source_files, alive, store, persisted>>

NextLoader ==
    \/ \E day \in QueryDays, t \in QueryTimes : GetFreeFaculty(day, t)
    \/ \E faculty_name \in QueryNames, day \in QueryDays \cup {""} :
         GetFacultySchedule(faculty_name, day)
    \/ \E room \in QueryRooms, day \in QueryDays \cup {""} : GetRoomSchedule(room, day)
    \/ \E faculty \in QueryNames \cup {""}, day \in QueryDays \cup {""} :
         HandleRoomAllocation(faculty, day)
    \/ \E faculty \in QueryNames \cup {""}, day \in QueryDays \cup {""} :
         HandleFacultySchedule(faculty, day)

SpecLoader == InitLoader /\ [][NextLoader]_vars

\* ------------------------------------------------------------------ IntelligentQueryProcessor
RoomIntentWords == {"room", "allocated", "allotted", "assigned"}
ScheduleIntentWords == {"schedule", "timetable", "when", "time"}
WorkloadIntentWords == {"workload", "hours", "teaching", "courses"}
PolicyIntentWords == {"policy", "rule", "regulation", "guideline"}
AvailabilityIntentWords == {"free", "available", "busy"}

\* faulty variant: the schedule keywords are tested before the room keywords
AnalyzeScheduleFirst(query) ==
    IF ContainsAny(query, ScheduleIntentWords) THEN "faculty_schedule"
    ELSE IF ContainsAny(query, RoomIntentWords) THEN "room_allocation"
    ELSE IF ContainsAny(query, WorkloadIntentWords) THEN "workload_inquiry"
    ELSE IF ContainsAny(query, PolicyIntentWords) THEN "policy_search"
    ELSE IF ContainsAny(query, AvailabilityIntentWords) THEN "availability_check"
    ELSE "general"

_analyze_intent(query) ==
    IF ContainsAny(query, RoomIntentWords) THEN "room_allocation"
    ELSE IF ContainsAny(query, ScheduleIntentWords) THEN "faculty_schedule"
    ELSE IF ContainsAny(query, WorkloadIntentWords) THEN "workload_inquiry"
    ELSE IF ContainsAny(query, PolicyIntentWords) THEN "policy_search"
    ELSE IF ContainsAny(query, AvailabilityIntentWords) THEN "availability_check"
    ELSE "general"

\* process_query: the intent and the handlers it calls, in call order
process_query(query) ==
    LET query_lower == Strip([i \in 1..Len(query) |-> Lower(query[i])])
        intent == _analyze_intent(query_lower)
    IN  [intent |-> intent,
         handlers |->
            IF intent = "room_allocation" THEN <<"_handle_room_allocation_intelligent">>
            ELSE IF intent = "faculty_schedule"
            THEN <<"_handle_faculty_schedule_intelligent">>
            ELSE IF intent = "workload_inquiry"
            THEN <<"_handle_workload_inquiry_intelligent">>
            ELSE IF intent = "policy_search" THEN <<"_handle_policy_search_intelligent">>
            ELSE IF intent = "availability_check"
            THEN <<"_handle_availability_check_intelligent">>
            ELSE <<"_handle_general_intelligent">>]

\* the sample query of _handle_general_intelligent and of the sidebar, and the
\* query of the Search Policies button
SampleQuery ==
    <<"What", "are", "the", "university", "policies", "on", "maximum", "workload?">>
ButtonQuery ==
    <<"What", "are", "the", "university", "policies", "on", "faculty", "workload?">>

QueryWords == {"room", "timetable", "Hours", "rules", "available", "policies"}
Queries == SeqUpTo(QueryWords, MaxWords) \cup {SampleQuery, ButtonQuery}

\* intelligent_processor.process_query(query); the policy handler searches the
\* store with n_results=3, the other handlers do not touch the store
ProcessQuery(query) ==
    /\ alive
    /\ \E r \in {process_query(query)} :
       \E searches \in {r.intent = "policy_search"} :
       \E query_raw \in IF searches THEN RawVecs ELSE {<<3, 4>>} :
       \E order \in SortedOrders(Similarities(IF HAS_FAISS THEN index ELSE embeddings,
                                              NormalizeRow(query_raw))) :
         ret' = [NoRet EXCEPT !.op = "process_query", !.text = query,
                              !.category = r.intent, !.out = r.handlers,
                              !.k = IF searches THEN 3 ELSE 0,
                              !.results =
                                  IF searches
                                  THEN search_policies(CurStore, HAS_FAISS, query_raw, 3,
                                                       order).results
                                  ELSE <<>>]
    /\ UNCHANGED <<agent, HAS_FAISS, source_files, alive, store, persisted>>

\* ------------------------------------------------------------------ app.py
\* what initialize_components returns: six components, or five None from its
\* except clause
initialize_components(failed) ==
    IF failed
    THEN <<"None", "None", "None", "None", "None">>
    ELSE <<"data_loader", "vector_store", "rag_tool", "timetable_tool", "workload_tool",
           "intelligent_processor">>

\* main after initialize_components returned: [raised, shown, processed].  The
\* assignment to six names raises ValueError unless six values came back.
main(components, user_query) ==
    IF Len(components) # 6
    THEN [raised |-> TRUE, shown |-> <<>>, processed |-> FALSE]
    ELSE IF \E i \in 1..Len(components) : components[i] = "None"
    THEN [raised |-> FALSE, shown |-> <<"Failed to initialize components">>,
          processed |-> FALSE]
    ELSE [raised |-> FALSE, shown |-> <<>>, processed |-> user_query # <<>>]

\* the tools initialize_components creates, and the timetable of the app's loader
AppTools == <<[kind |-> "rag", made_with |-> "A"], [kind |-> "timetable", made_with |-> "A"],
              [kind |-> "workload", made_with |-> "A"]>>
AppTimetable == <<CHOOSE row \in TimetableRows : row.Day = "Tuesday">>

CsvFiles == {"faculty_workload.csv", "timetable.csv"}

InitApp ==
    /\ NoAgent
    /\ HAS_FAISS \in BOOLEAN
    /\ \E doc \in Docs, csv \in {"ok", "missing"} :
         source_files = [p \in Paths \cup CsvFiles |->
            IF p = "policies.txt" THEN [state |-> "ok", content |-> doc]
            ELSE IF p = "timetable.csv" THEN [state |-> csv, content |-> <<>>]
            ELSE IF p = "faculty_workload.csv" THEN [state |-> "ok", content |-> <<>>]
            ELSE IF p = "unreadable.txt" THEN [state |-> "unreadable", content |-> <<>>]
            ELSE [state |-> "missing", content |-> <<>>]]
    /\ alive = TRUE
    /\ index = <<>>
    /\ embeddings = <<>>
    /\ metadata = <<>>
    /\ metadata_file = Absent
    /\ index_file = Absent
    /\ embeddings_file = Absent
    /\ ret = NoRet

\* One run of the script: main calls initialize_components, which constructs the
\* loader and the store, loads the policies and creates the tools, and then
\* processes the query of the session, if there is one.
Main(user_query) ==
    LET csv_ok == \A p \in CsvFiles : source_files[p].state = "ok"
        c == PolicyVectorStore_init(CurDisk, HAS_FAISS)
        failed == ~csv_ok \/ c.raised
        m == main(initialize_components(failed), user_query)
    IN  IF failed
        THEN /\ alive' = FALSE
             /\ SetStore(EmptyStore)
             /\ ret' = [NoRet EXCEPT !.op = "main", !.text = user_query, !.error = TRUE,
                                     !.raised = m.raised, !.shown = m.shown,
                                     !.processed = m.processed]
             /\ UNCHANGED <<agent, HAS_FAISS, source_files, persisted>>
        ELSE LET rows == RowsToAdd(c.st, source_files, "policies.txt", FALSE) IN
             /\ Fits(c.st, rows)
             /\ \E raw \in RandomMatrices(rows), fault \in Faults :
                  LET r == load_policies_from_file(c.st, CurDisk, HAS_FAISS, source_files,
                                                   "policies.txt", FALSE, raw, fault)
                  IN  /\ (~r.saved => fault = "none")
                      /\ alive' = TRUE
                      /\ SetStore(r.st)
                      /\ SetDisk(r.disk)
             /\ _vector_store' = "A"
             /\ _data_loader' = "A"
             /\ tools' = AppTools
             /\ loaders' = [l \in {"A"} |-> FacultyDataLoader_init(FacultyRows, AppTimetable)]
             /\ ret' = [NoRet EXCEPT !.op = "main", !.text = user_query, !.error = FALSE,
                                     !.raised = m.raised, !.shown = m.shown,
                                     !.processed = m.processed,
                                     !.category = IF m.processed
                                                  THEN process_query(user_query).intent
                                                  ELSE ""]
             /\ UNCHANGED <<HAS_FAISS, source_files>>

\* runs of the app, with and without a query in the session
SpecApp == InitApp /\ [][\E user_query \in {<<>>, SampleQuery} : Main(user_query)]_vars

\* ------------------------------------------------------------------ the tools of agent.py
\* Two stores and two loaders exist.  Store "A" is the store of the model, loaded
\* from policies.txt; store "B" is a PolicyVectorStore on another, empty directory.
\* Loader "A" has a class on Monday at 09:00, loader "B" has no classes.
Instances == {"A", "B"}
StoreNamed(name) == IF name = "A" THEN CurStore ELSE EmptyStore

InitTools ==
    /\ HAS_FAISS \in BOOLEAN
    /\ source_files = [p \in Paths |->
            IF p = "policies.txt" THEN [state |-> "ok", content |-> DocTwo]
            ELSE IF p = "unreadable.txt" THEN [state |-> "unreadable", content |-> <<>>]
            ELSE [state |-> "missing", content |-> <<>>]]
    /\ alive = TRUE
    /\ \E raw \in RandomMatrices(Len(_split_policies(DocTwo))) :
         LET r == load_policies_from_file(EmptyStore, Disk(Absent, Absent, Absent),
                                          HAS_FAISS, source_files, "policies.txt", FALSE,
                                          raw, "none")
         IN  /\ index = r.st.index
             /\ embeddings = r.st.embeddings
             /\ metadata = r.st.metadata
             /\ metadata_file = r.disk.metadata_file
             /\ index_file = r.disk.index_file
             /\ embeddings_file = r.disk.embeddings_file
    /\ ret = NoRet
    /\ _vector_store = "None"
    /\ _data_loader = "None"
    /\ tools = <<>>
    /\ loaders = [l \in Instances |->
            FacultyDataLoader_init(FacultyRows,
                IF l = "A" THEN <<CHOOSE row \in TimetableRows :
                                      row.Faculty = "Prof.Sharma" /\ row.Day = "Monday">>
                ELSE <<>>)]

\* the query processor over the loaded store
SpecIntent == InitTools /\ [][\E query \in Queries : ProcessQuery(query)]_vars

\* create_rag_policy_tool(vector_store): the global is set, the closure reads it
CreateRagPolicyTool(vector_store) ==
    /\ Len(tools) < MaxTools
    /\ _vector_store' = vector_store
    /\ tools' = Append(tools, [kind |-> "rag", made_with |-> vector_store])
    /\ ret' = [NoRet EXCEPT !.op = "create_rag_policy_tool", !.name = vector_store]
    /\ UNCHANGED <<_data_loader, loaders, HAS_FAISS, source_files, alive, store, persisted>>

\* create_timetable_query_tool(data_loader)
CreateTimetableQueryTool(data_loader) ==
    /\ Len(tools) < MaxTools
    /\ _data_loader' = data_loader
    /\ tools' = Append(tools, [kind |-> "timetable", made_with |-> data_loader])
    /\ ret' = [NoRet EXCEPT !.op = "create_timetable_query_tool", !.name = data_loader]
    /\ UNCHANGED <<_vector_store, loaders, HAS_FAISS, source_files, alive, store, persisted>>

\* create_workload_report_tool(data_loader)
CreateWorkloadReportTool(data_loader) ==
    /\ Len(tools) < MaxTools
    /\ _data_loader' = data_loader
    /\ tools' = Append(tools, [kind |-> "workload", made_with |-> data_loader])
    /\ ret' = [NoRet EXCEPT !.op = "create_workload_report_tool", !.name = data_loader]
    /\ UNCHANGED <<_vector_store, loaders, HAS_FAISS, source_files, alive, store, persisted>>

\* rag_policy_search(query) of the i-th tool: _vector_store.search_policies(query, 3)
RagPolicySearch(i) ==
    /\ i \in 1..Len(tools) /\ tools[i].kind = "rag"
    /\ \E query_raw \in RawVecs :
       \E order \in SortedOrders(Similarities(
                        IF HAS_FAISS THEN StoreNamed(_vector_store).index
                        ELSE StoreNamed(_vector_store).embeddings,
                        NormalizeRow(query_raw))) :
         ret' = [NoRet EXCEPT !.op = "rag_policy_search", !.name = tools[i].made_with,
                              !.k = 3,
                              !.results = search_policies(StoreNamed(_vector_store),
                                              HAS_FAISS, query_raw, 3, order).results]
    /\ UNCHANGED <<agent, HAS_FAISS, source_files, alive, store, persisted>>

\* the time of the query "faculty free on Monday at 9 am"
NineAM == [hour |-> 9, padded |-> FALSE, minutes |-> FALSE, minute |-> 0,
           meridiem |-> "AM", spelling |-> "2 pm"]

\* timetable_query("faculty free on Monday at 9 am") of the i-th tool:
\* _handle_free_faculty_query calls _data_loader.get_free_faculty("Monday", "9 am")
TimetableQuery(i) ==
    /\ i \in 1..Len(tools) /\ tools[i].kind = "timetable"
    /\ \E r \in {get_free_faculty(loaders[_data_loader], "Monday", TimeText(NineAM))} :
           ret' = [NoRet EXCEPT !.op = "timetable_query", !.name = tools[i].made_with,
                                !.day = "Monday", !.arg = NineAM, !.raised = r.raised,
                                !.free = r.free_faculty, !.busy = r.busy_faculty]
    /\ UNCHANGED <<agent, HAS_FAISS, source_files, alive, store, persisted>>

NextTools ==
    \/ \E vector_store \in Instances : CreateRagPolicyTool(vector_store)
    \/ \E data_loader \in Instances : CreateTimetableQueryTool(data_loader)
    \/ \E data_loader \in Instances : CreateWorkloadReportTool(data_loader)
    \/ \E i \in 1..MaxTools : RagPolicySearch(i)
    \/ \E i \in 1..MaxTools : TimetableQuery(i)

SpecTools == InitTools /\ [][NextTools]_vars

\* ------------------------------------------------------------------ claims
StoredVectors == VectorCount(CurStore, HAS_FAISS)

\* the scores of a result list never increase from one result to the next
Descending(results) ==
    \A i \in 1..(Len(results) - 1) : results[i].distance >= results[i + 1].distance

\* C1: in every reachable state of a constructed store, restored stores included,
\* the number of stored vectors equals the number of metadata entries.
C1_VectorsMatchMetadata == alive => StoredVectors = Len(metadata)

\* C2: on a non-empty store search_policies(q, k) returns at most k results (none
\* for k <= 0, a list having no negative length), ordered by non-increasing score.
C2_AtMostKDescending ==
    (ret.op = "search" /\ Len(metadata) > 0) =>
        /\ Len(ret.results) <= Max(ret.k, 0)
        /\ Descending(ret.results)

\* C3: search_policies on a store with no chunks returns the empty list and does
\* not raise, for every query and every top_k, under either backend.
C3_EmptyStoreSearch ==
    (ret.op = "search" /\ Len(metadata) = 0) => (ret.results = <<>> /\ ~ret.raised)

\* a search with k <= 0 on a FAISS store without chunks (index.search rejects it)
C3_Witness ==
    ret.op = "search" /\ Len(metadata) = 0 /\ HAS_FAISS /\ ret.k <= 0 /\ ret.results = <<>>

\* a populated store was asked to load again, without force, right after a load
C4_Witness ==
    ret.op = "load" /\ ret.repeat /\ ret.path = "policies.txt" /\ ret.before > 0

\* C4: of two load_policies_from_file(path) calls in a row without force, the
\* second leaves the chunk count where the first left it.
C4_SecondLoadKeepsCount ==
    [][(ret'.op = "load" /\ ret'.repeat) => Len(metadata') = Len(metadata)]_vars

\* a restart restored chunks from the persist directory and did not read the source
C5_Witness ==
    ret.op = "startup" /\ ret.ok /\ ~ret.opened /\ ret.before > 0 /\ Len(metadata) > 0

\* C5: across restarts (construct on the same persist directory, then load without
\* force) the chunk count stays what the first successful load made it.
C5_RestartKeepsCount ==
    [][(/\ ret.op = "startup" /\ ret.ok /\ alive
        /\ ret'.op = "startup" /\ alive') => Len(metadata') = Len(metadata)]_vars

\* the source of the last load could not be read
SourceUnreadable == ret.op = "load" /\ ~Readable(source_files, ret.path)

\* C6 as claimed: a load whose source is missing or unreadable returns False and
\* leaves vectors, metadata and persisted files as they were, with and without force.
C6_Original ==
    [][(ret'.op = "load" /\ ~Readable(source_files, ret'.path)) =>
          (~ret'.ok /\ UNCHANGED <<store, persisted>>)]_vars

\* C6 as amended: such a load leaves vectors, metadata and persisted files as they
\* were; it returns False when it reads the source (empty store, or force) and True
\* when the store is populated and force is not set.
C6_UnreadableSource ==
    [][(ret'.op = "load" /\ ~Readable(source_files, ret'.path)) =>
          /\ ret'.ok = (metadata # <<>> /\ ~ret'.force)
          /\ UNCHANGED <<store, persisted>>]_vars

\* a forced load of an unreadable source on a populated store returned False
C6_Witness ==
    SourceUnreadable /\ ret.force /\ ~ret.ok /\ ret.before > 0 /\ Len(metadata) = ret.before

\* C7: a load without force on a store that holds a chunk returns True without
\* opening the source and leaves vectors, metadata and persisted files unchanged,
\* whether or not the source exists.
C7_PopulatedLoadIsNoOp ==
    [][(ret'.op = "load" /\ ~ret'.force /\ metadata # <<>>) =>
          (ret'.ok /\ ~ret'.opened /\ UNCHANGED <<store, persisted>>)]_vars

\* a populated store was asked to load a missing source without force
C7_Witness ==
    /\ ret.op = "load" /\ ~ret.force /\ ret.path = "missing.txt"
    /\ ret.before > 0 /\ ret.ok /\ ~ret.opened

\* C8: after clear_collection get_collection_info reports document_count 0 and
\* the vector storage holds no vector.
C8_ClearEmpties ==
    ret.op = "clear" =>
        (get_collection_info(CurStore).document_count = 0 /\ StoredVectors = 0)

\* a store that held chunks was cleared
C8_Witness == ret.op = "clear" /\ ret.before > 0 /\ StoredVectors = 0

\* C9: once a store has persisted its state, a new store constructed on the same
\* persist directory holds the same metadata in the same order and the same vectors.
C9_RoundTrip ==
    [][(ret.saved /\ ret.written /\ alive /\ ret'.op = "init") =>
          (alive' /\ metadata' = metadata /\ index' = index /\ embeddings' = embeddings)]_vars

\* a new store restored chunks and vectors from the persisted files
C9_Witness ==
    ret.op = "init" /\ alive /\ Len(metadata) > 0 /\ StoredVectors = Len(metadata)

\* the persisted files hold what the store holds in memory
DiskMatchesMemory ==
    /\ metadata_file = Written(metadata)
    /\ IF HAS_FAISS THEN index_file = Written(index)
                    ELSE embeddings_file = Written(embeddings)

PersistedUnusable ==
    LET vec_file == IF HAS_FAISS THEN index_file ELSE embeddings_file
    IN  metadata_file.state # "ok" \/ vec_file.state # "ok"

\* C11: constructing a store never raises because of prior persisted state: with
\* the persisted files missing or unreadable it completes with an empty store.
C11_ConstructNeverRaises ==
    ret.op = "init" =>
        /\ ~ret.raised /\ alive
        /\ PersistedUnusable => (metadata = <<>> /\ StoredVectors = 0)

\* the public operations of a constructed store
PublicOps == {"load", "search", "by_category", "all", "clear", "info"}

\* the call met a storage failure: it opened a source it could not read, or a
\* write of its _save_index failed
StorageFailure ==
    \/ ret.op = "load" /\ ret.opened /\ ~Readable(source_files, ret.path)
    \/ ret.op \in {"load", "clear"} /\ ret.saved /\ ~ret.written

\* C12: no public operation of a constructed store raises: under a storage read
\* or write failure it returns its sentinel (False for load_policies_from_file
\* and clear_collection), and the store stays usable for the next operation.
C12_OperationsReturnSentinel ==
    ret.op \in PublicOps =>
        /\ ~ret.raised /\ alive
        /\ StorageFailure => ~ret.ok

\* C13: when writing the persisted files fails during load_policies_from_file or
\* clear_collection, the caller gets a failure signal, not success.
C13_WriteFailureSurfaced ==
    (ret.op \in {"load", "clear"} /\ ret.saved /\ ~ret.written) => ~ret.ok

\* the results one backend can return for a query vector and a top_k on a store
SearchOutcomes(st, faiss, query_raw, n_results) ==
    {search_policies(st, faiss, query_raw, n_results, order).results :
        order \in SortedOrders(Similarities(IF faiss THEN st.index ELSE st.embeddings,
                                            NormalizeRow(query_raw)))}

\* the store the other backend holds after the same calls with the same vectors
OtherBackendStore == Store(embeddings, index, metadata)

\* C14: the FAISS-backed and the NumPy-backed store are observationally
\* equivalent: what a search returned on this backend, the other backend returns
\* for the same vectors, the same query vector and the same top_k.
C14_BackendsEquivalent ==
    ret.op = "search" =>
        \E query_raw \in RawVecs :
            /\ ret.results \in SearchOutcomes(CurStore, HAS_FAISS, query_raw, ret.k)
            /\ ret.results \in SearchOutcomes(OtherBackendStore, ~HAS_FAISS, query_raw, ret.k)

\* C15: of two results with equal score, the chunk inserted earlier comes first.
C15_TiesByInsertionOrder ==
    ret.op = "search" =>
        \A i, j \in 1..Len(ret.results) :
            (i < j /\ ret.results[i].distance = ret.results[j].distance)
                => ret.indices[i] < ret.indices[j]

\* the non-blank lines of policies.txt, stripped
NonBlankLines ==
    SelectSeq([i \in 1..Len(Content) |-> Strip(Content[i])], LAMBDA line : line # <<>>)

\* the places of the marker lines among them
MarkerPlaces == {i \in 1..Len(NonBlankLines) : IsPolicyNumberLine(NonBlankLines[i])}

\* the k-th marker line, and the place where its chunk ends
MarkerPlace(k) == CHOOSE i \in MarkerPlaces : Cardinality({j \in MarkerPlaces : j < i}) = k - 1
ChunkEnd(k) ==
    IF k = Cardinality(MarkerPlaces) THEN Len(NonBlankLines) ELSE MarkerPlace(k + 1) - 1

\* lines joined by a single space
RECURSIVE JoinLines(_)
JoinLines(lines) ==
    IF Len(lines) = 1 THEN lines[1] ELSE lines[1] \o <<" ">> \o JoinLines(Tail(lines))

NoTextBeforeFirstMarker == NonBlankLines = <<>> \/ 1 \in MarkerPlaces

\* C16: an input of n marker lines with no text before the first one yields
\* exactly n chunks, in source order: the k-th chunk has the numeric prefix of
\* the k-th marker line as its ordinal, and its text is that line followed by the
\* non-blank lines up to the next marker, joined by single spaces.
C16_OneChunkPerMarker ==
    (ret.op = "split" /\ NoTextBeforeFirstMarker) =>
        /\ Len(ret.results) = Cardinality(MarkerPlaces)
        /\ \A k \in 1..Len(ret.results) :
             /\ ret.results[k].policy_number = MarkerNumber(NonBlankLines[MarkerPlace(k)])
             /\ ret.results[k].text =
                    JoinLines(SubSeq(NonBlankLines, MarkerPlace(k), ChunkEnd(k)))

\* two markers, the first followed by a continuation line, were split
C16_Witness ==
    /\ ret.op = "split" /\ NoTextBeforeFirstMarker
    /\ Len(ret.results) = 2
    /\ MarkerPlace(2) = 3

Categories == {"workload_management", "scheduling", "department_management",
               "faculty_development", "general"}

\* C17: _categorize_policy returns one label of the closed set, the one of the
\* first keyword group, in the order workload, scheduling, department, faculty
\* development, of which the text holds a keyword; general when it holds none.
C17_FirstMatchingGroup ==
    ret.op = "categorize" =>
        LET w == ContainsAny(ret.text, WorkloadWords)
            s == ContainsAny(ret.text, ScheduleWords)
            d == ContainsAny(ret.text, DepartmentWords)
            f == ContainsAny(ret.text, DevelopmentWords)
        IN  /\ ret.category \in Categories
            /\ w => ret.category = "workload_management"
            /\ (~w /\ s) => ret.category = "scheduling"
            /\ (~w /\ ~s /\ d) => ret.category = "department_management"
            /\ (~w /\ ~s /\ ~d /\ f) => ret.category = "faculty_development"
            /\ (~w /\ ~s /\ ~d /\ ~f) => ret.category = "general"

\* a text with a workload keyword and a keyword of a later group was categorized
C17_Witness ==
    /\ ret.op = "categorize"
    /\ ContainsAny(ret.text, WorkloadWords) /\ ContainsAny(ret.text, ScheduleWords)
    /\ ret.category = "workload_management"

\* C18: get_policy_by_category(c) returns exactly the stored chunks whose category
\* is c, each once, in insertion order, each with the fixed score 1.0; the list is
\* empty when no chunk has category c.
C18_ExactlyTheCategory ==
    ret.op = "by_category" =>
        LET places == {i \in 1..Len(metadata) : metadata[i].category = ret.category}
            Place(k) == CHOOSE i \in places : Cardinality({j \in places : j < i}) = k - 1
        IN  /\ ~ret.raised
            /\ Len(ret.results) = Cardinality(places)
            /\ \A k \in 1..Len(ret.results) :
                 ret.results[k] = [text |-> metadata[Place(k)].text,
                                   metadata |-> metadata[Place(k)],
                                   distance |-> FixedScore]

\* a category that one of two stored chunks has was asked for
C18_Witness ==
    /\ ret.op = "by_category"
    /\ Len(metadata) = 2 /\ Len(ret.results) = 1
    /\ metadata[2].category = ret.category

IsPrefix(a, b) == Len(a) <= Len(b) /\ SubSeq(b, 1, Len(a)) = a

\* C19: load_policies_from_file leaves the stored chunks, metadata and vectors, as
\* a prefix of the new ones, and clear_collection is the only operation of a store
\* after which the chunk count is lower than before.
C19_AppendOnly ==
    [][/\ ret'.op = "load" =>
            /\ IsPrefix(metadata, metadata')
            /\ IsPrefix(index, index')
            /\ IsPrefix(embeddings, embeddings')
       /\ (ret'.op \in PublicOps /\ Len(metadata') < Len(metadata)) => ret'.op = "clear"]_vars

\* a forced load added chunks to a populated store
C19_Witness ==
    /\ ret.op = "load" /\ ret.force
    /\ ret.before > 0 /\ Len(metadata) > ret.before

\* C20: every result of search_policies refers to an existing metadata entry: a
\* hit whose index is negative or not below len(metadata) is skipped, without an
\* error and without a result that has no metadata.
C20_ResultsHaveMetadata ==
    ret.op = "search" =>
        /\ ~ret.raised
        /\ Len(ret.indices) = Len(ret.results)
        /\ \A i \in 1..Len(ret.results) :
             /\ 0 <= ret.indices[i] /\ ret.indices[i] < Len(metadata)
             /\ ret.results[i].metadata = metadata[ret.indices[i] + 1]
             /\ ret.results[i].text = metadata[ret.indices[i] + 1].text

\* a search on a store with more vectors than metadata entries skipped a hit
C20_Witness ==
    /\ ret.op = "search" /\ HAS_FAISS /\ ret.k >= 1
    /\ StoredVectors > Len(metadata)
    /\ Len(ret.results) < Min(ret.k, StoredVectors)

\* the hour of the day, 0..23, that a time input means
HourOfDay(t) ==
    IF t.meridiem = "PM" THEN (IF t.hour = 12 THEN 12 ELSE t.hour + 12)
    ELSE IF t.meridiem = "AM" THEN (IF t.hour = 12 THEN 0 ELSE t.hour)
    ELSE t.hour

\* the zero-padded form HH:MM of a time input
PaddedForm(t) == Format02d(HourOfDay(t)) \o <<":">> \o Format02d(t.minute)

\* C21: _convert_to_24hour maps every valid time text, 12-hour or 24-hour, to the
\* zero-padded form HH:MM of its time of day, so that two texts for the same time
\* give the same string.
C21_ZeroPaddedForm ==
    ret.op = "convert" => (~ret.raised /\ ret.out = PaddedForm(ret.arg))

\* the minutes since midnight of a zero-padded HH:MM and of a time input
MinutesOf(hhmm) == IntOf(SplitAt(hhmm, ":")[1]) * 60 + IntOf(SplitAt(hhmm, ":")[2])
MinutesOfInput(t) == HourOfDay(t) * 60 + t.minute

\* the rows of the timetable that are in session on ret.day at the time ret.arg
RowsInSession ==
    SelectSeq(loaders["A"].timetable_df, LAMBDA row :
        /\ StrContains(row.Day, ret.day)
        /\ MinutesOf(row.StartTime) <= MinutesOfInput(ret.arg)
        /\ MinutesOfInput(ret.arg) < MinutesOf(row.EndTime))

\* C22: get_free_faculty(day, t) lists a row as busy exactly when its day matches
\* and start <= t < end as times of day, and a faculty name as free exactly when
\* no busy row carries it.
C22_BusyHalfOpen ==
    ret.op = "free_faculty" =>
        /\ ~ret.raised
        /\ ret.busy = [i \in 1..Len(RowsInSession) |->
                          [name |-> RowsInSession[i].Faculty,
                           course |-> RowsInSession[i].Course,
                           room |-> RowsInSession[i].Room]]
        /\ \A i \in 1..Len(loaders["A"].faculty_df) :
             LET f == loaders["A"].faculty_df[i].Name
             IN  (\E j \in 1..Len(ret.free) : ret.free[j] = f)
                     <=> (\A k \in 1..Len(RowsInSession) : RowsInSession[k].Faculty # f)

\* a row of the timetable matches the name (of a faculty or of a room) and the
\* day of the last schedule call
RowMatches(row) ==
    /\ IF ret.op = "room_schedule" THEN StrContains(row.Room, ret.name)
       ELSE StrContains(row.Faculty, ret.name)
    /\ ret.day # "" => StrContains(row.Day, ret.day)

SomeRowMatches ==
    \E i \in 1..Len(loaders["A"].timetable_df) : RowMatches(loaders["A"].timetable_df[i])

\* C29: get_faculty_schedule and get_room_schedule return an error dict exactly
\* when no timetable row matches, a result without error has a non-empty sessions
\* list, and so the handlers never take their branch for a non-error result with
\* empty sessions.
C29_NoEmptySessions ==
    /\ ret.op \in {"faculty_schedule", "room_schedule"} =>
           /\ ret.error <=> ~SomeRowMatches
           /\ ~ret.error => ret.results # <<>>
    /\ ret.op \in {"room_allocation", "faculty_schedule_handler"} =>
           ret.branch # "no classes scheduled"

\* a faculty with classes was asked for on a day without any
C29_Witness ==
    /\ ret.op = "faculty_schedule" /\ ret.error /\ ret.day # ""
    /\ \E i \in 1..Len(loaders["A"].timetable_df) :
         StrContains(loaders["A"].timetable_df[i].Faculty, ret.name)

Intents == {"room_allocation", "faculty_schedule", "workload_inquiry", "policy_search",
            "availability_check", "general"}

\* the handler of an intent
HandlerOf(intent) ==
    CASE intent = "room_allocation" -> "_handle_room_allocation_intelligent"
      [] intent = "faculty_schedule" -> "_handle_faculty_schedule_intelligent"
      [] intent = "workload_inquiry" -> "_handle_workload_inquiry_intelligent"
      [] intent = "policy_search" -> "_handle_policy_search_intelligent"
      [] intent = "availability_check" -> "_handle_availability_check_intelligent"
      [] intent = "general" -> "_handle_general_intelligent"

\* C23: every query gets exactly one of the six intents, the first in the order
\* room_allocation, faculty_schedule, workload_inquiry, policy_search,
\* availability_check of which it holds a keyword, general when it holds none,
\* and process_query calls exactly the handler of that intent.
C23_FirstMatchingIntent ==
    ret.op = "process_query" =>
        LET r == ContainsAny(ret.text, RoomIntentWords)
            s == ContainsAny(ret.text, ScheduleIntentWords)
            w == ContainsAny(ret.text, WorkloadIntentWords)
            p == ContainsAny(ret.text, PolicyIntentWords)
            a == ContainsAny(ret.text, AvailabilityIntentWords)
        IN  /\ ret.category \in Intents
            /\ r => ret.category = "room_allocation"
            /\ (~r /\ s) => ret.category = "faculty_schedule"
            /\ (~r /\ ~s /\ w) => ret.category = "workload_inquiry"
            /\ (~r /\ ~s /\ ~w /\ p) => ret.category = "policy_search"
            /\ (~r /\ ~s /\ ~w /\ ~p /\ a) => ret.category = "availability_check"
            /\ (~r /\ ~s /\ ~w /\ ~p /\ ~a) => ret.category = "general"
            /\ ret.out = <<HandlerOf(ret.category)>>

\* a query with a room keyword and a schedule keyword was processed
C23_Witness ==
    /\ ret.op = "process_query"
    /\ ContainsAny(ret.text, RoomIntentWords) /\ ContainsAny(ret.text, ScheduleIntentWords)
    /\ ret.out = <<"_handle_room_allocation_intelligent">>

\* C24: the two advertised policy queries are answered by the policy search
\* handler: process_query returns the result of a vector-store search for them.
C24_PolicyQueriesSearch ==
    (ret.op = "process_query" /\ ret.text \in {SampleQuery, ButtonQuery}) =>
        /\ ret.out = <<"_handle_policy_search_intelligent">>
        /\ \E query_raw \in RawVecs :
             ret.results \in SearchOutcomes(CurStore, HAS_FAISS, query_raw, 3)

\* C25: when component initialization fails, main shows 'Failed to initialize
\* components' and returns without processing a query and without raising.
C25_FailedInitIsReported ==
    (ret.op = "main" /\ ret.error) =>
        /\ ~ret.raised
        /\ ret.shown = <<"Failed to initialize components">>
        /\ ~ret.processed

ReadOnlyOps == {"search", "by_category", "all", "info"}

\* C26: search_policies, get_policy_by_category, get_all_policies and
\* get_collection_info leave the stored vectors, the metadata and the persisted
\* files unchanged.
C26_ReadOnlyOperations ==
    [][ret'.op \in ReadOnlyOps => UNCHANGED <<store, persisted>>]_vars

\* a search returned results from a populated, persisted store
C26_Witness ==
    /\ ret.op = "search" /\ Len(ret.results) > 0
    /\ metadata_file.state = "ok" /\ Len(metadata_file.data) > 0

\* C28: a successful load_policies_from_file with force=True on a store of n
\* chunks, from a source of m chunks, leaves n + m chunks: the first n unchanged,
\* followed by the m chunks of the source.
C28_ForcedLoadAppends ==
    [][(ret'.op = "load" /\ ret'.force /\ ret'.ok /\ ret'.opened) =>
          LET m == Len(_split_policies(source_files[ret'.path].content))
              n == Len(metadata)
          IN  /\ Len(metadata') = n + m
              /\ SubSeq(metadata', 1, n) = metadata
              /\ StoredVectors' = StoredVectors + m]_vars

\* a forced reload of the same source doubled the store
C28_Witness ==
    /\ ret.op = "load" /\ ret.force /\ ret.ok
    /\ ret.before > 0 /\ Len(metadata) = 2 * ret.before
    /\ \A i \in 1..ret.before : metadata[i] = metadata[ret.before + i]

\* C27: each tool answers from the instance it was created with (ret.name): a
\* timetable tool from its data loader, a policy tool from its vector store, also
\* after another tool was created with another instance.
C27_ToolKeepsItsInstance ==
    /\ ret.op = "timetable_query" =>
           LET r == get_free_faculty(loaders[ret.name], ret.day, TimeText(ret.arg))
           IN  ret.free = r.free_faculty /\ ret.busy = r.busy_faculty
    /\ ret.op = "rag_policy_search" =>
           \E query_raw \in RawVecs :
               ret.results \in SearchOutcomes(StoreNamed(ret.name), HAS_FAISS, query_raw, 3)

\* C30: every chunk of _split_policies starts with a numbered marker and has the
\* number of that marker, never 0, as its ordinal, also when the source has
\* non-blank text before its first marker.
C30_ChunksStartWithMarker ==
    ret.op = "split" =>
        \A k \in 1..Len(ret.results) :
            /\ IsPolicyNumberLine(ret.results[k].text)
            /\ ret.results[k].policy_number = MarkerNumber(ret.results[k].text)
            /\ ret.results[k].policy_number # 0

====
